---------------------------- MODULE Spec2Model ----------------------------
(***************************************************************************)
(* Claire relaxation companion (src/app.py, src/auth.py, src/db.py,        *)
(* src/claire_ai.py) as a state machine.                                   *)
(*                                                                         *)
(* A Python str is a sequence of characters, each a TLA+ string ("a", or a  *)
(* name such as "e-acute"); a fixed text of the code is one such element.  *)
(* None and the empty string are both the empty sequence (the code only ever tests them with  *)
(* "not value" / "value or None").  A database table is the sequence of    *)
(* its rows in insertion order; a row's primary key is its index.          *)
(***************************************************************************)
EXTENDS Integers, Sequences, FiniteSets, TLC

VARIABLES
    users,          \* table users          (src/db.py:28)
    conversations,  \* table conversations  (src/db.py:41)
    messages,       \* table messages       (src/db.py:60)
    session_state,  \* st.session_state of every browser session
    secrets,        \* st.secrets / os.environ of the running process
    started,        \* history variable: per session, the conversation its last
                    \* run started with start_new_conversation (0: none)
    last,           \* history variable: the last call, its inputs and results
    pc              \* per session, the position of its running callback
                    \* ("idle": no callback is running)

vars == <<users, conversations, messages, session_state, secrets, started, last,
          pc>>

(***************************************************************************)
(* Bounds of the model.                                                    *)
(***************************************************************************)
NumSalts == 1
NumSessions == 2
MaxConversations == 3
MaxTurns == 1
MaxHistory == 22
MaxLimit == 3

Salts == 1..NumSalts
Sessions == 1..NumSessions

(***************************************************************************)
(* Strings.                                                                *)
(***************************************************************************)
None == <<>>

IsSpace(c) == c = " "

RECURSIVE LStrip(_)
LStrip(s) == IF s # <<>> /\ IsSpace(Head(s)) THEN LStrip(Tail(s)) ELSE s

RECURSIVE RStrip(_)
RStrip(s) ==
    IF s # <<>> /\ IsSpace(s[Len(s)]) THEN RStrip(SubSeq(s, 1, Len(s) - 1)) ELSE s

\* str.strip()
Strip(s) == RStrip(LStrip(s))

LowerChar(c) ==
    CASE c = "A" -> "a"
      [] c = "B" -> "b"
      [] c = "C" -> "c"
      [] c = "F" -> "f"
      [] OTHER -> c

\* str.lower()
Lower(s) == [i \in DOMAIN s |-> LowerChar(s[i])]

\* Code point of a character; every character of the model is below U+0800.
CodePoint(c) ==
    CASE c = " " -> 32
      [] c = "A" -> 65
      [] c = "B" -> 66
      [] c = "C" -> 67
      [] c = "F" -> 70
      [] c = "a" -> 97
      [] c = "b" -> 98
      [] c = "c" -> 99
      [] c = "f" -> 102
      [] c = "p" -> 112
      [] c = "q" -> 113
      [] c = "x" -> 120
      [] c = "y" -> 121
      [] c = "e-acute" -> 233
      [] c = "o-umlaut" -> 246

\* UTF-8 of one code point below U+0800: one byte, or two.
Utf8Char(cp) ==
    IF cp < 128 THEN <<cp>> ELSE <<192 + (cp \div 64), 128 + (cp % 64)>>

RECURSIVE Utf8Encode(_)
\* str.encode("utf-8")
Utf8Encode(s) ==
    IF s = <<>> THEN <<>> ELSE Utf8Char(CodePoint(Head(s))) \o Utf8Encode(Tail(s))

(***************************************************************************)
(* src/auth.py: passwords.                                                 *)
(* bcrypt is an external primitive, taken as ideal: a hash is the salt     *)
(* together with a digest that is injective in (salt, password bytes).     *)
(* Any other value of the password_hash column is a malformed hash.        *)
(***************************************************************************)
MAX_PASSWORD_BYTES == 72

\* Mutant: the password is encoded and never truncated.
truncate_password_Whole(password) == Utf8Encode(password)

truncate_password(password) ==
    LET pw_bytes == Utf8Encode(password)
    IN  IF Len(pw_bytes) > MAX_PASSWORD_BYTES
        THEN SubSeq(pw_bytes, 1, MAX_PASSWORD_BYTES)
        ELSE pw_bytes

bcrypt_hashpw(pw_bytes, salt) == [salt |-> salt, digest |-> pw_bytes]

MalformedHashes == {[junk |-> 0], [salt |-> 1]}

IsWellFormedHash(h) == DOMAIN h = {"salt", "digest"}

\* bcrypt.checkpw: raises ValueError on a hash it cannot parse.
bcrypt_checkpw(pw_bytes, hashed) ==
    IF IsWellFormedHash(hashed)
    THEN [raised |-> FALSE, value |-> bcrypt_hashpw(pw_bytes, hashed.salt) = hashed]
    ELSE [raised |-> TRUE, value |-> FALSE]

\* Mutant: every password verifies against a well-formed hash.
verify_password_AnyPassword(plain_password, hashed_password) ==
    IsWellFormedHash(hashed_password)

\* salt is the value bcrypt.gensalt() draws
hash_password(password, salt) == bcrypt_hashpw(truncate_password(password), salt)

\* verify_password with its try/except: what it returns, and whether an
\* exception leaves it.
verify_password_try(plain_password, hashed_password) ==
    LET r == bcrypt_checkpw(truncate_password(plain_password), hashed_password)
    IN  IF r.raised
        THEN [raised |-> FALSE, value |-> FALSE]
        ELSE [raised |-> FALSE, value |-> r.value]

verify_password(plain_password, hashed_password) ==
    verify_password_try(plain_password, hashed_password).value

(***************************************************************************)
(* src/auth.py: users.                                                     *)
(***************************************************************************)
NormalizeEmail(email) == Lower(Strip(email))

\* The id of the first row whose email is the normalized argument, 0 for None.
get_user_by_email(us, email) ==
    LET e == NormalizeEmail(email)
        hits == {i \in DOMAIN us : us[i].email = e}
    IN  IF hits = {} THEN 0 ELSE CHOOSE i \in hits : \A j \in hits : i <= j

\* users.email is unique=True: the INSERT of a second equal email fails.
UniqueEmailViolated(us, email) == \E i \in DOMAIN us : us[i].email = email

\* Mutant: the identifier is trimmed but not lower-cased before the INSERT.
create_user_NoLower(us, email, full_name, password, profile_notes, salt) ==
    LET e == Strip(email)
        user == [email |-> e,
                 full_name |-> Strip(full_name),
                 password_hash |-> hash_password(password, salt),
                 profile_notes |-> Strip(profile_notes)]
    IN  IF UniqueEmailViolated(us, e)
        THEN [raised |-> TRUE, users |-> us, id |-> 0]
        ELSE [raised |-> FALSE, users |-> Append(us, user), id |-> Len(us) + 1]

create_user(us, email, full_name, password, profile_notes, salt) ==
    LET e == NormalizeEmail(email)
        user == [email |-> e,
                 full_name |-> Strip(full_name),
                 password_hash |-> hash_password(password, salt),
                 profile_notes |-> Strip(profile_notes)]
    IN  IF UniqueEmailViolated(us, e)
        THEN [raised |-> TRUE, users |-> us, id |-> 0]
        ELSE [raised |-> FALSE, users |-> Append(us, user), id |-> Len(us) + 1]

(***************************************************************************)
(* src/app.py: secrets and seeding.                                        *)
(* A configuration key holds a value in st.secrets and one in os.environ.  *)
(***************************************************************************)
get_secret(entry) ==
    LET value == IF entry.st # None THEN entry.st ELSE entry.env
    IN  Strip(value)

\* Mutant: an existing user keeps the stored password hash.
SeedSlot_KeepHash(us, slot, salt) ==
    LET username == get_secret(slot.username)
        password == get_secret(slot.password)
        fullname == IF get_secret(slot.fullname) # None
                    THEN get_secret(slot.fullname)
                    ELSE username
    IN  IF username = None \/ password = None
        THEN us
        ELSE LET existing == get_user_by_email(us, username)
             IN  IF existing = 0
                 THEN create_user(us, username, fullname, password, None, salt).users
                 ELSE [us EXCEPT ![existing].full_name = fullname]

SeedSlot(us, slot, salt) ==
    LET username == get_secret(slot.username)
        password == get_secret(slot.password)
        fullname == IF get_secret(slot.fullname) # None
                    THEN get_secret(slot.fullname)
                    ELSE username
    IN  IF username = None \/ password = None
        THEN us
        ELSE LET existing == get_user_by_email(us, username)
             IN  IF existing = 0
                 THEN create_user(us, username, fullname, password, None, salt).users
                 ELSE [us EXCEPT ![existing].full_name = fullname,
                                 ![existing].password_hash =
                                     hash_password(password, salt)]

seed_two_users_from_secrets(us, cfg, salts) ==
    SeedSlot(SeedSlot(us, cfg.slots[1], salts[1]), cfg.slots[2], salts[2])

(***************************************************************************)
(* src/app.py: conversations.                                              *)
(* created_at is datetime.utcnow() at the INSERT; two INSERTs that each    *)
(* run to completion get increasing values, so the logical time of a row   *)
(* is its position in the table.                                           *)
(***************************************************************************)
get_current_user(us, ss) ==
    IF ss.user_id # 0 /\ ss.user_id \in DOMAIN us THEN ss.user_id ELSE 0

NewConversation(convs, user_id) ==
    [user_id |-> user_id, is_active |-> TRUE, created_at |-> Len(convs) + 1]

\* .order_by(Conversation.created_at.desc()).first() over the active rows
MostRecentActive(convs, user_id) ==
    LET active == {c \in DOMAIN convs :
                      convs[c].user_id = user_id /\ convs[c].is_active}
    IN  IF active = {} THEN 0
        ELSE CHOOSE c \in active :
                 \A d \in active : convs[d].created_at <= convs[c].created_at

\* The remembered conversation, if it is a row of this user (0: None).
RememberedConversation(convs, conv_id, user_id) ==
    IF conv_id # 0 /\ conv_id \in DOMAIN convs /\ convs[conv_id].user_id = user_id
    THEN conv_id
    ELSE 0

\* Mutant: the remembered conversation id is not looked up.
get_or_create_active_conversation_NoRemembered(convs, conv_id, user_id) ==
    LET conv == MostRecentActive(convs, user_id)
    IN  IF conv # 0
        THEN [conversations |-> convs, conv |-> conv]
        ELSE [conversations |-> Append(convs, NewConversation(convs, user_id)),
              conv |-> Len(convs) + 1]

get_or_create_active_conversation(convs, conv_id, user_id) ==
    LET byId == RememberedConversation(convs, conv_id, user_id)
        conv == IF byId # 0 THEN byId ELSE MostRecentActive(convs, user_id)
    IN  IF conv # 0
        THEN [conversations |-> convs, conv |-> conv]
        ELSE [conversations |-> Append(convs, NewConversation(convs, user_id)),
              conv |-> Len(convs) + 1]

\* Mutant: the UPDATE of start_new_conversation deactivates nothing.
DeactivateAll_Nothing(convs, user_id) == convs

DeactivateAll(convs, user_id) ==
    [c \in DOMAIN convs |->
        IF convs[c].user_id = user_id
        THEN [convs[c] EXCEPT !.is_active = FALSE]
        ELSE convs[c]]

\* Mutant: the new conversation is inserted without the preceding UPDATE.
start_new_conversation_NoDeactivate(convs, user_id) ==
    [conversations |-> Append(convs, NewConversation(convs, user_id)),
     conv |-> Len(convs) + 1]

start_new_conversation(convs, user_id) ==
    LET off == DeactivateAll(convs, user_id)
    IN  [conversations |-> Append(off, NewConversation(off, user_id)),
         conv |-> Len(off) + 1]

(***************************************************************************)
(* src/app.py: history.                                                    *)
(***************************************************************************)
DEFAULT_LIMIT == 50

\* Python's seq[start:] for any integer start.
PySliceFrom(seq, start) ==
    LET n == Len(seq)
        from == IF start < 0
                THEN (IF start + n < 0 THEN 0 ELSE start + n)
                ELSE (IF start > n THEN n ELSE start)
    IN  SubSeq(seq, from + 1, n)

get_conversation_history(msgs, conversation_id, limit) ==
    LET all == SelectSeq(msgs, LAMBDA m : m.conversation_id = conversation_id)
    IN  IF Len(all) > limit THEN PySliceFrom(all, 0 - limit) ELSE all

(***************************************************************************)
(* src/claire_ai.py: the prompt and the completion call.                   *)
(***************************************************************************)
MODEL_HISTORY == 20

SYSTEM_PROMPT == <<"You are Claire, a calm, grounded AI coach ...">>

ProfileText(user) ==
    <<"Name: ">> \o user.full_name \o <<"\n", "Username: ">> \o user.email
    \o (IF user.profile_notes # None
        THEN <<"\n", "Profile notes: ">> \o user.profile_notes
        ELSE <<>>)

\* Mutant: the history is trimmed to its first 20 messages (history[:20]).
build_messages_for_model_Oldest(user, history) ==
    LET h == IF Len(history) > MODEL_HISTORY
             THEN SubSeq(history, 1, MODEL_HISTORY)
             ELSE history
    IN  <<[role |-> "system", content |-> SYSTEM_PROMPT],
          [role |-> "system",
           content |-> <<"Here is context about the user you are helping. ",
                         "Use it to personalize your responses:\n">>
                       \o ProfileText(user)]>>
        \o [i \in DOMAIN h |-> [role |-> h[i].sender_role, content |-> h[i].content]]

build_messages_for_model(user, history) ==
    LET h == IF Len(history) > MODEL_HISTORY
             THEN PySliceFrom(history, 0 - MODEL_HISTORY)
             ELSE history
    IN  <<[role |-> "system", content |-> SYSTEM_PROMPT],
          [role |-> "system",
           content |-> <<"Here is context about the user you are helping. ",
                         "Use it to personalize your responses:\n">>
                       \o ProfileText(user)]>>
        \o [i \in DOMAIN h |-> [role |-> h[i].sender_role, content |-> h[i].content]]

NoApiKeyMessage ==
    <<"OPENAI_API_KEY is not set. Use Streamlit secrets or an environment variable.">>

\* st.secrets.get("OPENAI_API_KEY") or os.environ.get("OPENAI_API_KEY")
ApiKey(cfg) == IF cfg.api_key.st # None THEN cfg.api_key.st ELSE cfg.api_key.env

\* outcome is what the completion service does with the request: it answers
\* with a text, or the call raises.  The result is the returned reply, or the
\* exception raised, with the number of requests sent to the service.
generate_claire_reply(cfg, user, history, outcome) ==
    IF ApiKey(cfg) = None
    THEN [raised |-> TRUE, value |-> NoApiKeyMessage, requests |-> 0, payload |-> <<>>]
    ELSE LET payload == build_messages_for_model(user, history)
         IN  IF outcome.kind = "text"
             THEN [raised |-> FALSE, value |-> Strip(outcome.content),
                   requests |-> 1, payload |-> payload]
             ELSE [raised |-> TRUE, value |-> outcome.message,
                   requests |-> 1, payload |-> payload]

FallbackReply(e) ==
    <<"I hit an error while trying to respond.",
      " Check your OpenAI configuration.\n\n",
      "Error: ">> \o e

NewMessage(conversation_id, sender_role, content) ==
    [conversation_id |-> conversation_id, sender_role |-> sender_role,
     content |-> content]

\* Mutant: the completion call is made outside the try block.
respond_NoCatch(cfg, msgs, user, conv, input_text, outcome) ==
    LET msgs1 == Append(msgs, NewMessage(conv, "user", input_text))
        history == get_conversation_history(msgs1, conv, DEFAULT_LIMIT)
        r == generate_claire_reply(cfg, user, history, outcome)
    IN  IF r.raised
        THEN [messages |-> msgs1, reply |-> <<>>, calls |-> 1, escaped |-> TRUE,
              requests |-> r.requests, payload |-> r.payload]
        ELSE [messages |-> Append(msgs1, NewMessage(conv, "assistant", r.value)),
              reply |-> r.value, calls |-> 1, escaped |-> FALSE,
              requests |-> r.requests, payload |-> r.payload]

\* One user turn: handle_quick_action, and the chat-input branch of
\* show_main_app.  calls counts the invocations of generate_claire_reply,
\* escaped says whether an exception of it leaves the turn.
respond(cfg, msgs, user, conv, input_text, outcome) ==
    LET msgs1 == Append(msgs, NewMessage(conv, "user", input_text))
        history == get_conversation_history(msgs1, conv, DEFAULT_LIMIT)
        r == generate_claire_reply(cfg, user, history, outcome)
        reply == IF r.raised THEN FallbackReply(r.value) ELSE r.value
    IN  [messages |-> Append(msgs1, NewMessage(conv, "assistant", reply)),
         reply |-> reply, calls |-> 1, escaped |-> FALSE,
         requests |-> r.requests, payload |-> r.payload]

(***************************************************************************)
(* The application: every user event is one run of main() (src/app.py:397) *)
(* in the event's browser session: init_db, seeding, get_current_user, and *)
(* then the login page or the main page with the event's handler.  The     *)
(* rerun that st.rerun() asks for is the session's next run.               *)
(***************************************************************************)
InSecrets(v) == [st |-> v, env |-> None]
InEnviron(v) == [st |-> None, env |-> v]
Unset == [st |-> None, env |-> None]

AppSlots ==
    <<[username |-> InSecrets(<<"a">>), password |-> InSecrets(<<"p">>),
       fullname |-> InSecrets(<<"F">>)],
      [username |-> InEnviron(<<"B">>), password |-> InEnviron(<<"q">>),
       fullname |-> Unset]>>

AppSecrets ==
    {[slots |-> AppSlots, api_key |-> k] : k \in {InSecrets(<<"sk">>), Unset}}

\* The submissions of the login form: each way to fail, and both accounts.
LoginForms ==
    {[username |-> None,          password |-> <<"p">>, agree |-> TRUE],
     [username |-> <<"A", " ">>,  password |-> None,    agree |-> TRUE],
     [username |-> <<"A", " ">>,  password |-> <<"p">>, agree |-> FALSE],
     [username |-> <<"c">>,       password |-> <<"p">>, agree |-> TRUE],
     [username |-> <<"A", " ">>,  password |-> <<"q">>, agree |-> TRUE],
     [username |-> <<"A", " ">>,  password |-> <<"p">>, agree |-> TRUE],
     [username |-> <<"b">>,       password |-> <<"q">>, agree |-> TRUE]}

ChatTexts == {<<"I feel anxious">>}

QuickSeeds ==
    {<<"Guide me through a simple 3-minute breathing exercise in your usual style.">>,
     <<"My thoughts are racing. Walk me through facing, accepting, floating, and letting time pass.">>,
     <<"Guide me through a slow body scan to release tension in your usual style.">>}

CompletionOutcomes ==
    {[kind |-> "text", content |-> <<" ", "Let it pass.", " ">>],
     [kind |-> "raise", message |-> <<"timeout">>]}

Init ==
    /\ users = <<>>
    /\ conversations = <<>>
    /\ messages = <<>>
    /\ session_state = [s \in Sessions |-> [user_id |-> 0, conversation_id |-> 0]]
    /\ secrets \in AppSecrets
    /\ started = [s \in Sessions |-> 0]
    /\ last = [op |-> "init"]
    /\ pc = [s \in Sessions |-> "idle"]

\* show_auth_page with the form submitted (a run of the login page without a
\* submission is the submission of an empty form: it only seeds).
Login(s, username, password, agree) ==
    \E salts \in Salts \X Salts :
        \E us1 \in {seed_two_users_from_secrets(users, secrets, salts)} :
        LET uid == get_user_by_email(us1, username)
            ok == /\ username # None /\ password # None
                  /\ agree
                  /\ uid # 0
                  /\ verify_password(password, us1[uid].password_hash)
        IN  /\ get_current_user(us1, session_state[s]) = 0
            /\ users' = us1
            /\ session_state' =
                   IF ok
                   THEN [session_state EXCEPT ![s] =
                            [user_id |-> uid, conversation_id |-> 0]]
                   ELSE session_state
            /\ started' = [started EXCEPT ![s] = 0]
            /\ last' = IF ok
                       THEN [op |-> "login", s |-> s, ok |-> TRUE,
                             username |-> username, password |-> password,
                             agree |-> agree]
                       ELSE [op |-> "login", s |-> s, ok |-> FALSE,
                             why |-> IF username = None \/ password = None
                                     THEN "required"
                                     ELSE IF ~agree THEN "agree" ELSE "invalid"]
            /\ UNCHANGED <<pc, conversations, messages, secrets>>

\* What every run of show_main_app records of its get_or_create call.
Resolved(op, s, u, r) == [op |-> op, s |-> s, resolved |-> r.conv]

\* show_main_app with no widget fired
Render(s) ==
    \E salts \in Salts \X Salts :
        \E us1 \in {seed_two_users_from_secrets(users, secrets, salts)} :
        LET u == get_current_user(us1, session_state[s])
            r == get_or_create_active_conversation(
                     conversations, session_state[s].conversation_id, u)
        IN  /\ u # 0
            /\ Len(r.conversations) <= MaxConversations
            /\ users' = us1
            /\ conversations' = r.conversations
            /\ session_state' = [session_state EXCEPT ![s].conversation_id = r.conv]
            /\ started' = [started EXCEPT ![s] = 0]
            /\ last' = Resolved("render", s, u, r)
            /\ UNCHANGED <<pc, messages, secrets>>

\* show_main_app, "Start new session"
StartNewSession(s) ==
    \E salts \in Salts \X Salts :
        \E us1 \in {seed_two_users_from_secrets(users, secrets, salts)} :
        LET u == get_current_user(us1, session_state[s])
            r == get_or_create_active_conversation(
                     conversations, session_state[s].conversation_id, u)
            n == start_new_conversation(r.conversations, u)
        IN  /\ u # 0
            /\ Len(n.conversations) <= MaxConversations
            /\ users' = us1
            /\ conversations' = n.conversations
            /\ session_state' = [session_state EXCEPT ![s].conversation_id = n.conv]
            /\ started' = [started EXCEPT ![s] = n.conv]
            /\ last' = Resolved("start_new", s, u, r) @@
                       [new_conv |-> n.conv, convs_at_call |-> Len(r.conversations)]
            /\ UNCHANGED <<pc, messages, secrets>>

\* show_main_app, "Log out"
LogOut(s) ==
    \E salts \in Salts \X Salts :
        \E us1 \in {seed_two_users_from_secrets(users, secrets, salts)} :
        LET u == get_current_user(us1, session_state[s])
            r == get_or_create_active_conversation(
                     conversations, session_state[s].conversation_id, u)
        IN  /\ u # 0
            /\ Len(r.conversations) <= MaxConversations
            /\ users' = us1
            /\ conversations' = r.conversations
            /\ session_state' = [session_state EXCEPT ![s] =
                                    [user_id |-> 0, conversation_id |-> 0]]
            /\ started' = [started EXCEPT ![s] = 0]
            /\ last' = Resolved("logout", s, u, r)
            /\ UNCHANGED <<pc, messages, secrets>>

\* A user turn of show_main_app: op names the widget that fired.
Turn(op, s, input_text, outcome) ==
    \E salts \in Salts \X Salts :
        \E us1 \in {seed_two_users_from_secrets(users, secrets, salts)} :
        LET u == get_current_user(us1, session_state[s])
            r == get_or_create_active_conversation(
                     conversations, session_state[s].conversation_id, u)
            t == respond(secrets, messages, us1[u], r.conv, input_text, outcome)
        IN  /\ u # 0
            /\ input_text # None
            /\ Len(r.conversations) <= MaxConversations
            /\ Len(t.messages) <= 2 * MaxTurns
            /\ users' = us1
            /\ conversations' = r.conversations
            /\ session_state' = [session_state EXCEPT ![s].conversation_id = r.conv]
            /\ messages' = t.messages
            /\ started' = [started EXCEPT ![s] = 0]
            /\ last' = Resolved(op, s, u, r) @@
                       [input |-> input_text, outcome |-> outcome,
                        reply |-> t.reply, calls |-> t.calls,
                        escaped |-> t.escaped, requests |-> t.requests]
            /\ UNCHANGED <<pc, secrets>>

\* handle_quick_action, from one of the three buttons
QuickAction(s, seed_text, outcome) == Turn("quick_action", s, seed_text, outcome)

\* the chat-input branch of show_main_app
ChatInput(s, user_input, outcome) == Turn("chat_input", s, user_input, outcome)

Next ==
    \/ \E s \in Sessions, form \in LoginForms :
           Login(s, form.username, form.password, form.agree)
    \/ \E s \in Sessions : Render(s)
    \/ \E s \in Sessions : StartNewSession(s)
    \/ \E s \in Sessions : LogOut(s)
    \/ \E s \in Sessions, seed_text \in QuickSeeds, outcome \in CompletionOutcomes :
           QuickAction(s, seed_text, outcome)
    \/ \E s \in Sessions, user_input \in ChatTexts, outcome \in CompletionOutcomes :
           ChatInput(s, user_input, outcome)

Spec == Init /\ [][Next]_vars

(***************************************************************************)
(* get_or_create_active_conversation on its own (specification             *)
(* SpecResolve): two users, every table of up to MaxConversations          *)
(* conversations of theirs, and sessions that remember any row of it, a    *)
(* row of the other user included.  Several rows of one user may be        *)
(* active: the two commits of start_new_conversation are not one           *)
(* transaction, so runs of two sessions that interleave leave such tables. *)
(***************************************************************************)
ResolveUsers ==
    seed_two_users_from_secrets(
        <<>>, [slots |-> AppSlots, api_key |-> Unset], <<1, 1>>)

ResolveInit ==
    /\ users = ResolveUsers
    /\ \E n \in 0..MaxConversations :
           \E owner \in [1..n -> DOMAIN ResolveUsers], active \in [1..n -> BOOLEAN] :
               conversations =
                   [c \in 1..n |-> [user_id |-> owner[c], is_active |-> active[c],
                                   created_at |-> c]]
    /\ messages = <<>>
    /\ \E u \in DOMAIN ResolveUsers, conv_id \in 0..Len(conversations) :
           session_state = [s \in Sessions |->
                               [user_id |-> u,
                                conversation_id |-> IF s = 1 THEN conv_id ELSE 0]]
    /\ secrets = [slots |-> AppSlots, api_key |-> Unset]
    /\ started = [s \in Sessions |-> 0]
    /\ last = [op |-> "init"]
    /\ pc = [s \in Sessions |-> "idle"]

\* get_or_create_active_conversation(db, user) in session s
ResolveCall(s) ==
    LET u == get_current_user(users, session_state[s])
        r == get_or_create_active_conversation(
                 conversations, session_state[s].conversation_id, u)
    IN  /\ u # 0
        /\ Len(r.conversations) <= MaxConversations
        /\ conversations' = r.conversations
        /\ session_state' = [session_state EXCEPT ![s].conversation_id = r.conv]
        /\ last' = [op |-> "get_or_create_active_conversation", s |-> s,
                    resolved |-> r.conv, remembered |-> session_state[s].conversation_id]
        /\ UNCHANGED <<pc, users, messages, secrets, started>>

ResolveNext == \E s \in Sessions : ResolveCall(s)

SpecResolve == ResolveInit /\ [][ResolveNext]_vars

(***************************************************************************)
(* Properties of the application (specification Spec, and SpecResolve for  *)
(* the fallback of get_or_create_active_conversation).                     *)
(***************************************************************************)
MainOps == {"render", "start_new", "logout", "quick_action", "chat_input"}
TurnOps == {"quick_action", "chat_input"}
ResolveOps == MainOps \cup {"get_or_create_active_conversation"}

ConversationsOf(convs, u) == {c \in DOMAIN convs : convs[c].user_id = u}
ActiveOf(convs, u) == {c \in ConversationsOf(convs, u) : convs[c].is_active}

\* C1: after any sequence of complete runs (login, logout, render, start new
\* session, user turns) from any sessions, every user owns at most one
\* conversation with is_active true.
C1_AtMostOneActive ==
    \A u \in DOMAIN users : Cardinality(ActiveOf(conversations, u)) <= 1

\* Two sessions of one user, who owns several conversations, one of them active.
C1_Witness ==
    \E u \in DOMAIN users :
        /\ \A s \in Sessions : session_state[s].user_id = u
        /\ Cardinality(ConversationsOf(conversations, u)) >= 2
        /\ Cardinality(ActiveOf(conversations, u)) = 1

C2_Step ==
    /\ last'.op = "start_new" =>
           LET s == last'.s
               u == session_state[s].user_id
               B == last'.new_conv
           IN  /\ \A c \in ConversationsOf(conversations, u) :
                      ~conversations'[c].is_active
               /\ Len(conversations') = last'.convs_at_call + 1
               /\ B = Len(conversations')
               /\ B \notin DOMAIN conversations
               /\ conversations'[B].user_id = u
               /\ ActiveOf(conversations', u) = {B}
    /\ \A s \in Sessions :
           (started[s] # 0 /\ last'.op \in MainOps /\ last'.s = s) =>
               last'.resolved = started[s]

\* C2: a run of start_new_conversation(user) leaves every conversation the user
\* had before inactive and exactly one new conversation B of the user, active;
\* the next get_or_create_active_conversation of the session returns B, whatever
\* other sessions did in between.
C2_StartNew == [][C2_Step]_vars

\* start_new_conversation has run for a user who had a conversation before.
C2_Witness ==
    /\ last.op = "start_new"
    /\ \E c \in DOMAIN conversations :
           /\ c < last.new_conv
           /\ conversations[c].user_id = conversations[last.new_conv].user_id
    /\ started[last.s] = last.new_conv

C3_Step ==
    last'.op \in ResolveOps =>
        LET s == last'.s
            u == session_state[s].user_id
            cid == session_state[s].conversation_id
            got == last'.resolved
            actives == ActiveOf(conversations, u)
        IN  /\ IF cid \in ConversationsOf(conversations, u)
               THEN got = cid
               ELSE IF actives # {}
               THEN /\ got \in actives
                    /\ \A d \in actives :
                           conversations[d].created_at
                               <= conversations[got].created_at
               ELSE /\ got = Len(conversations) + 1
                    /\ got \in DOMAIN conversations'
                    /\ last'.op # "start_new" => conversations'[got].is_active
            /\ conversations'[got].user_id = u
            /\ last'.op \notin {"start_new", "logout"} =>
                   session_state'[s].conversation_id = got

\* C3: get_or_create_active_conversation returns the remembered conversation if
\* it is one of the user's, else the user's most recently created active
\* conversation, else a new active conversation of the user; the result is a
\* conversation of the user, also when the remembered id names a conversation
\* of another user, and becomes the session's remembered id.
C3_Fallback == [][C3_Step]_vars

\* The session remembered a conversation of another user, and the call
\* returned the later of the user's two active conversations.
C3_Witness ==
    /\ last.op = "get_or_create_active_conversation"
    /\ last.remembered # 0
    /\ conversations[last.remembered].user_id
           # conversations[last.resolved].user_id
    /\ \E c \in ActiveOf(conversations, conversations[last.resolved].user_id) :
           c < last.resolved

StartsWith(text, prefix) ==
    Len(text) >= Len(prefix) /\ SubSeq(text, 1, Len(prefix)) = prefix

Contains(text, part) ==
    \E i \in 1..(Len(text) - Len(part) + 1) :
        SubSeq(text, i, i + Len(part) - 1) = part

C4_Step ==
    last'.op \in TurnOps =>
        LET conv == last'.resolved
            n == Len(messages)
            failed == ApiKey(secrets) = None \/ last'.outcome.kind = "raise"
            error == IF ApiKey(secrets) = None
                     THEN NoApiKeyMessage
                     ELSE last'.outcome.message
        IN  /\ last'.calls = 1
            /\ last'.requests <= 1
            /\ ~last'.escaped
            /\ Len(messages') = n + 2
            /\ SubSeq(messages', 1, n) = messages
            /\ messages'[n + 1] = [conversation_id |-> conv, sender_role |-> "user",
                                   content |-> last'.input]
            /\ messages'[n + 2].conversation_id = conv
            /\ messages'[n + 2].sender_role = "assistant"
            /\ IF failed
               THEN /\ StartsWith(messages'[n + 2].content,
                                  <<"I hit an error while trying to respond.">>)
                    /\ Contains(messages'[n + 2].content, error)
               ELSE messages'[n + 2].content = Strip(last'.outcome.content)

\* C4: a user turn calls the completion once and appends exactly two messages
\* to the conversation: the user's input, then the assistant's reply, which is
\* the completion text, or the fallback text with the exception's message when
\* the call raises (a missing API key included); no exception leaves the turn.
C4_Turn == [][C4_Step]_vars

\* "I feel anxious" was sent and the completion call raised "timeout".
C4_Witness ==
    /\ last.op = "chat_input"
    /\ last.input = <<"I feel anxious">>
    /\ ApiKey(secrets) # None
    /\ last.outcome = [kind |-> "raise", message |-> <<"timeout">>]
    /\ messages[Len(messages)].content = FallbackReply(<<"timeout">>)

(***************************************************************************)
(* get_conversation_history and build_messages_for_model on their own      *)
(* (specification SpecHistory): a user, the user's conversation 1 holding  *)
(* n messages of alternating roles, and possibly an older conversation 2   *)
(* of the same user whose messages lie in between.                         *)
(***************************************************************************)
HistoryMessage(i) ==
    NewMessage(1, IF i % 2 = 1 THEN "user" ELSE "assistant",
               <<"turn ", ToString(i)>>)

RECURSIVE HistoryTable(_, _)
HistoryTable(n, mixed) ==
    IF n = 0 THEN <<>>
    ELSE HistoryTable(n - 1, mixed)
         \o (IF mixed /\ n % 3 = 0
             THEN <<NewMessage(2, "user", <<"other ", ToString(n)>>)>>
             ELSE <<>>)
         \o <<HistoryMessage(n)>>

HistoryLimits == (0..MaxLimit) \cup {DEFAULT_LIMIT}

HistoryInit ==
    /\ \E notes \in {None, <<"sleeps badly">>} :
           users = <<[email |-> <<"a">>, full_name |-> <<"F">>,
                      password_hash |-> hash_password(<<"p">>, 1),
                      profile_notes |-> notes]>>
    /\ conversations =
           <<[user_id |-> 1, is_active |-> TRUE, created_at |-> 1],
             [user_id |-> 1, is_active |-> FALSE, created_at |-> 2]>>
    /\ \E n \in 0..MaxHistory, mixed \in BOOLEAN :
           messages = HistoryTable(n, mixed)
    /\ session_state = [s \in Sessions |-> [user_id |-> 0, conversation_id |-> 0]]
    /\ secrets = [slots |-> AppSlots, api_key |-> InSecrets(<<"sk">>)]
    /\ started = [s \in Sessions |-> 0]
    /\ last = [op |-> "init"]
    /\ pc = [s \in Sessions |-> "idle"]

HistoryCall(conversation_id, limit) ==
    /\ last' = [op |-> "get_conversation_history",
                conversation_id |-> conversation_id, limit |-> limit,
                result |-> get_conversation_history(messages, conversation_id, limit)]
    /\ UNCHANGED <<pc, users, conversations, messages, session_state, secrets,
                   started>>

\* generate_claire_reply's call, on the history show_main_app hands it
BuildCall(conversation_id) ==
    LET history == get_conversation_history(messages, conversation_id, DEFAULT_LIMIT)
    IN  /\ last' = [op |-> "build_messages_for_model", history |-> history,
                    result |-> build_messages_for_model(users[1], history)]
        /\ UNCHANGED <<pc, users, conversations, messages, session_state, secrets,
                       started>>

HistoryNext ==
    \/ \E c \in DOMAIN conversations, limit \in HistoryLimits : HistoryCall(c, limit)
    \/ \E c \in DOMAIN conversations : BuildCall(c)

SpecHistory == HistoryInit /\ [][HistoryNext]_vars

Min(a, b) == IF a < b THEN a ELSE b

MessagesOf(conversation_id) ==
    SelectSeq(messages, LAMBDA m : m.conversation_id = conversation_id)

\* C5: for n stored messages and every limit >= 0, get_conversation_history
\* returns exactly the min(n, limit) most recent messages of the conversation,
\* oldest first.
C5_ExactlyMinMostRecent ==
    last.op = "get_conversation_history" =>
        LET all == MessagesOf(last.conversation_id)
            n == Len(all)
            k == Min(n, last.limit)
        IN  /\ Len(last.result) = k
            /\ last.result = SubSeq(all, n - k + 1, n)

\* C6: the payload holds the persona block, the profile block and then the
\* min(n, 20) most recent messages of the history, in order, each with the role
\* and content it was stored with: 2 + min(n, 20) entries.
C6_Payload ==
    last.op = "build_messages_for_model" =>
        LET h == last.history
            n == Len(h)
            k == Min(n, 20)
            payload == last.result
        IN  /\ Len(payload) = 2 + k
            /\ payload[1] = [role |-> "system", content |-> SYSTEM_PROMPT]
            /\ payload[2].role = "system"
            /\ StartsWith(payload[2].content,
                          <<"Here is context about the user you are helping. ">>)
            /\ Contains(payload[2].content, <<"Name: ">> \o users[1].full_name)
            /\ Contains(payload[2].content, <<"Username: ">> \o users[1].email)
            /\ Contains(payload[2].content, <<"Profile notes: ">>)
                   <=> users[1].profile_notes # None
            /\ \A i \in 1..k :
                   /\ payload[2 + i].role = h[n - k + i].sender_role
                   /\ payload[2 + i].content = h[n - k + i].content

\* A payload was built from a history of more than 20 messages.
C6_Witness ==
    /\ last.op = "build_messages_for_model"
    /\ Len(last.history) > 20
    /\ Len(last.result) = 22

(***************************************************************************)
(* hash_password and verify_password on their own (specification           *)
(* SpecPassword).  The passwords are runs of "x" with at most one other    *)
(* character, one or two bytes long, of lengths around 0 and around the    *)
(* 72-byte limit.                                                          *)
(***************************************************************************)
PwShort == 1
PwSlack == 2

PwLengths ==
    (0..PwShort) \cup
    ((MAX_PASSWORD_BYTES - PwSlack)..(MAX_PASSWORD_BYTES + PwSlack))

Pw(n, k, c) == [i \in 1..n |-> IF i = k THEN c ELSE "x"]

Passwords ==
    {Pw(n, 0, "x") : n \in PwLengths} \cup
    {Pw(pos[1], pos[2], c) :
        pos \in {q \in PwLengths \X PwLengths : 1 <= q[2] /\ q[2] <= q[1]},
        c \in {"y", "e-acute", "o-umlaut"}}

PasswordInit ==
    /\ users = <<>>
    /\ conversations = <<>>
    /\ messages = <<>>
    /\ session_state = [s \in Sessions |-> [user_id |-> 0, conversation_id |-> 0]]
    /\ secrets = [slots |-> AppSlots, api_key |-> Unset]
    /\ started = [s \in Sessions |-> 0]
    /\ last = [op |-> "init"]
    /\ pc = [s \in Sessions |-> "idle"]

\* verify_password(p1, hash_password(p2))
VerifyHashed(p1, p2, salt) ==
    LET hashed == hash_password(p2, salt)
        r == verify_password_try(p1, hashed)
    IN  /\ last.op = "init"
        /\ last' = [op |-> "verify_password", plain |-> p1, password |-> p2,
                    malformed |-> FALSE, raised |-> r.raised, result |-> r.value]
        /\ UNCHANGED <<pc, users, conversations, messages, session_state, secrets,
                       started>>

\* verify_password(p1, h) for a stored value h that is no bcrypt hash
VerifyMalformed(p1, hashed) ==
    LET r == verify_password_try(p1, hashed)
    IN  /\ last.op = "init"
        /\ last' = [op |-> "verify_password", plain |-> p1, password |-> None,
                    malformed |-> TRUE, raised |-> r.raised, result |-> r.value]
        /\ UNCHANGED <<pc, users, conversations, messages, session_state, secrets,
                       started>>

PasswordNext ==
    \/ \E p1 \in Passwords, p2 \in Passwords, salt \in Salts :
           VerifyHashed(p1, p2, salt)
    \/ \E p1 \in Passwords, hashed \in MalformedHashes : VerifyMalformed(p1, hashed)

SpecPassword == PasswordInit /\ [][PasswordNext]_vars

First72Bytes(password) ==
    LET b == Utf8Encode(password) IN SubSeq(b, 1, Min(Len(b), 72))

\* C10: verify_password(p1, hash_password(p2)) is true exactly when p1 and p2
\* have the same first 72 bytes of UTF-8; on a malformed hash verify_password
\* returns false; it never raises.
C10_Verify ==
    last.op = "verify_password" =>
        /\ ~last.raised
        /\ IF last.malformed
           THEN last.result = FALSE
           ELSE last.result <=>
                    First72Bytes(last.plain) = First72Bytes(last.password)

\* Two different passwords, equal in their first 72 bytes, verify.
C10_Witness ==
    /\ last.op = "verify_password"
    /\ ~last.malformed
    /\ last.plain # last.password
    /\ Len(Utf8Encode(last.plain)) > 72
    /\ last.result

(***************************************************************************)
(* Startups on their own (specification SpecSeed): the process is started  *)
(* again and again, each time with some configuration of the two account   *)
(* slots, and the first run of main() seeds the users.                     *)
(***************************************************************************)
SeedSlots ==
    {[username |-> Unset, password |-> Unset, fullname |-> Unset],
     [username |-> InSecrets(<<"a">>), password |-> InSecrets(<<" ", "p">>),
      fullname |-> InSecrets(<<"F">>)],
     [username |-> InEnviron(<<"A", " ">>), password |-> InEnviron(<<"q">>),
      fullname |-> Unset],
     [username |-> InSecrets(<<"b">>), password |-> InSecrets(<<"q">>),
      fullname |-> InSecrets(<<"F">>)],
     [username |-> InEnviron(<<"b">>), password |-> InEnviron(<<" ", "p">>),
      fullname |-> Unset],
     [username |-> InSecrets(<<"c">>), password |-> InSecrets(<<" ", "p">>),
      fullname |-> Unset],
     [username |-> InSecrets(<<"a">>), password |-> Unset,
      fullname |-> InSecrets(<<"F">>)],
     [username |-> Unset, password |-> InEnviron(<<"q">>),
      fullname |-> InSecrets(<<"F">>)]}

SeedSecrets == {[slots |-> <<s1, s2>>, api_key |-> Unset] : s1, s2 \in SeedSlots}

SeedInit ==
    /\ users = <<>>
    /\ conversations = <<>>
    /\ messages = <<>>
    /\ session_state = [s \in Sessions |-> [user_id |-> 0, conversation_id |-> 0]]
    /\ secrets = [slots |-> [i \in 1..2 |->
                      [username |-> Unset, password |-> Unset, fullname |-> Unset]],
                  api_key |-> Unset]
    /\ started = [s \in Sessions |-> 0]
    /\ last = [op |-> "init"]
    /\ pc = [s \in Sessions |-> "idle"]

\* main() up to seed_two_users_from_secrets, in a process started with cfg
Startup(cfg) ==
    \E salts \in Salts \X Salts :
        /\ users' = seed_two_users_from_secrets(users, cfg, salts)
        /\ secrets' = cfg
        /\ last' = [op |-> "seed", n_before |-> Len(users)]
        /\ UNCHANGED <<pc, conversations, messages, session_state, started>>

SeedNext == \E cfg \in SeedSecrets : Startup(cfg)

SpecSeed == SeedInit /\ [][SeedNext]_vars

\* The values of a slot as _get_secret reads them.
SlotUsername(cfg, i) == get_secret(cfg.slots[i].username)
SlotPassword(cfg, i) == get_secret(cfg.slots[i].password)
SlotFullname(cfg, i) ==
    IF get_secret(cfg.slots[i].fullname) # None
    THEN get_secret(cfg.slots[i].fullname)
    ELSE SlotUsername(cfg, i)
SlotConfigured(cfg, i) == SlotUsername(cfg, i) # None /\ SlotPassword(cfg, i) # None

\* Slot i is in sync with table us: one user has its normalized username,
\* with the slot's display name and a hash that verifies the slot's password.
SlotSynced(us, cfg, i) ==
    LET rows == {j \in DOMAIN us : us[j].email = Lower(Strip(SlotUsername(cfg, i)))}
    IN  /\ Cardinality(rows) = 1
        /\ \A j \in rows :
               /\ us[j].full_name = SlotFullname(cfg, i)
               /\ verify_password(SlotPassword(cfg, i), us[j].password_hash)

\* Slot 1 is overridden when slot 2 is configured with the same normalized username.
SlotOverridden(cfg, i) ==
    /\ i = 1
    /\ SlotConfigured(cfg, 2)
    /\ Lower(Strip(SlotUsername(cfg, 1))) = Lower(Strip(SlotUsername(cfg, 2)))

\* C8 as claimed: after seeding, every slot that has a username and a password
\* is in sync with the users table.
C8_EverySlotSynced ==
    last.op = "seed" =>
        \A i \in 1..2 : SlotConfigured(secrets, i) => SlotSynced(users, secrets, i)

C8_Step ==
    last'.op = "seed" =>
        /\ \A i \in 1..2 :
               (SlotConfigured(secrets', i) /\ ~SlotOverridden(secrets', i))
                   => SlotSynced(users', secrets', i)
        /\ Len(users') >= Len(users)
        /\ \A j \in DOMAIN users' :
               (j \notin DOMAIN users \/ users'[j] # users[j]) =>
                   \E i \in 1..2 :
                       /\ SlotConfigured(secrets', i)
                       /\ users'[j].email = Lower(Strip(SlotUsername(secrets', i)))

\* C8, amended: after seeding, every slot that has a username and a password
\* (as _get_secret reads them) and is not slot 1 overridden by a slot 2 with the
\* same normalized username is in sync with the users table, whether or not its
\* user existed; no user is created or changed but those the configured slots name.
C8_SeedSyncs == [][C8_Step]_vars

\* A startup has resynchronized an existing user: both slots name the same
\* user, with different passwords, and no user was created.
C8_Witness ==
    /\ last.op = "seed"
    /\ last.n_before = Len(users)
    /\ SlotConfigured(secrets, 1)
    /\ SlotOverridden(secrets, 1)
    /\ SlotPassword(secrets, 1) # SlotPassword(secrets, 2)
    /\ SlotSynced(users, secrets, 2)

\* C9: after any sequence of startups the users table holds at most two users.
C9_AtMostTwoUsers == Len(users) <= 2

(***************************************************************************)
(* create_user and get_user_by_email on their own (specification SpecAuth).*)
(***************************************************************************)
AuthEmails == {<<"a">>, <<"A", " ">>, <<" ", "a">>, <<"b">>, <<"B">>}
AuthNames == {<<"F">>, <<" ", "f">>}
AuthPasswords == {<<"p">>, <<"q">>}

CreateUser(email, full_name, password, salt) ==
    LET r == create_user(users, email, full_name, password, None, salt)
    IN  /\ users' = r.users
        /\ last' = [op |-> "create_user", email |-> email, raised |-> r.raised]
        /\ UNCHANGED <<pc, conversations, messages, session_state, secrets,
                       started>>

GetUserByEmail(email) ==
    /\ last' = [op |-> "get_user_by_email", email |-> email,
                result |-> get_user_by_email(users, email)]
    /\ UNCHANGED <<pc, users, conversations, messages, session_state, secrets,
                   started>>

AuthNext ==
    \/ \E email \in AuthEmails, full_name \in AuthNames,
          password \in AuthPasswords, salt \in Salts :
           CreateUser(email, full_name, password, salt)
    \/ \E email \in AuthEmails : GetUserByEmail(email)

SpecAuth == PasswordInit /\ [][AuthNext]_vars

SameIdentifier(e1, e2) == Lower(Strip(e1)) = Lower(Strip(e2))

RowsOf(us, email) == {j \in DOMAIN us : SameIdentifier(us[j].email, email)}

C7_Step ==
    /\ last'.op = "create_user" =>
           IF RowsOf(users, last'.email) # {}
           THEN last'.raised /\ users' = users
           ELSE ~last'.raised /\ Len(users') = Len(users) + 1
    /\ \A email \in AuthEmails : Cardinality(RowsOf(users', email)) <= 1
    /\ last'.op = "get_user_by_email" =>
           IF RowsOf(users, last'.email) = {}
           THEN last'.result = 0
           ELSE last'.result \in RowsOf(users, last'.email)

\* C7: create_user with an identifier that normalizes to an existing user's
\* fails and changes nothing, so at most one row exists per normalized
\* identifier, and get_user_by_email finds that row from any case or
\* whitespace variant of the identifier.
C7_Duplicate == [][C7_Step]_vars

\* create_user was refused for a variant spelling of a stored identifier.
C7_Witness ==
    /\ last.op = "create_user"
    /\ last.raised
    /\ \E j \in DOMAIN users :
           users[j].email # last.email /\ SameIdentifier(users[j].email, last.email)
    /\ Cardinality(RowsOf(users, last.email)) = 1

(***************************************************************************)
(* Concurrent sessions (specification SpecRace).  Every db.commit() of     *)
(* get_or_create_active_conversation and start_new_conversation is a step  *)
(* of its own, and the steps of the sessions interleave: Streamlit runs    *)
(* each session's script in its own thread, each with its own database     *)
(* session.  pc[s] is the position of session s in its run of              *)
(* show_main_app.                                                          *)
(***************************************************************************)
InsertConversation_UnlessActive(convs, user_id) ==
    IF \E c \in DOMAIN convs : convs[c].user_id = user_id /\ convs[c].is_active
    THEN convs
    ELSE Append(convs, NewConversation(convs, user_id))

\* db.add(conv); db.commit()
InsertConversation(convs, user_id) ==
    Append(convs, NewConversation(convs, user_id))

RaceInit ==
    /\ users = ResolveUsers
    /\ conversations = <<>>
    /\ messages = <<>>
    /\ session_state \in
           [Sessions -> {[user_id |-> u, conversation_id |-> 0] :
                            u \in DOMAIN ResolveUsers}]
    /\ secrets = [slots |-> AppSlots, api_key |-> Unset]
    /\ started = [s \in Sessions |-> 0]
    /\ last = [op |-> "init"]
    /\ pc = [s \in Sessions |-> "idle"]

\* get_or_create_active_conversation up to its INSERT: the two queries
GetOrCreate_Query(s) ==
    LET u == get_current_user(users, session_state[s])
        byId == RememberedConversation(
                    conversations, session_state[s].conversation_id, u)
        conv == IF byId # 0 THEN byId ELSE MostRecentActive(conversations, u)
    IN  /\ pc[s] = "idle"
        /\ u # 0
        /\ IF conv # 0
           THEN /\ session_state' =
                       [session_state EXCEPT ![s].conversation_id = conv]
                /\ pc' = [pc EXCEPT ![s] = "resolved"]
           ELSE /\ pc' = [pc EXCEPT ![s] = "get_or_create:insert"]
                /\ UNCHANGED session_state
        /\ last' = [op |-> "query", s |-> s, found |-> conv]
        /\ UNCHANGED <<users, conversations, messages, secrets, started>>

\* get_or_create_active_conversation from its INSERT on
GetOrCreate_Insert(s) ==
    LET u == session_state[s].user_id
        convs == InsertConversation(conversations, u)
    IN  /\ pc[s] = "get_or_create:insert"
        /\ Len(conversations) < MaxConversations
        /\ conversations' = convs
        /\ session_state' =
               [session_state EXCEPT ![s].conversation_id = Len(conversations) + 1]
        /\ pc' = [pc EXCEPT ![s] = "resolved"]
        /\ last' = [op |-> "insert", s |-> s,
                    via |-> "get_or_create_active_conversation"]
        /\ UNCHANGED <<users, messages, secrets, started>>

\* show_main_app ends with no button pressed
EndRun(s) ==
    /\ pc[s] = "resolved"
    /\ pc' = [pc EXCEPT ![s] = "idle"]
    /\ last' = [op |-> "end", s |-> s]
    /\ UNCHANGED <<users, conversations, messages, session_state, secrets,
                   started>>

\* "Start new session": start_new_conversation up to its first commit
StartNew_Deactivate(s) ==
    /\ pc[s] = "resolved"
    /\ conversations' = DeactivateAll(conversations, session_state[s].user_id)
    /\ pc' = [pc EXCEPT ![s] = "start_new:insert"]
    /\ last' = [op |-> "deactivate", s |-> s]
    /\ UNCHANGED <<users, messages, session_state, secrets, started>>

\* start_new_conversation from its INSERT on, and st.rerun()
StartNew_Insert(s) ==
    LET u == session_state[s].user_id
        convs == InsertConversation(conversations, u)
    IN  /\ pc[s] = "start_new:insert"
        /\ Len(conversations) < MaxConversations
        /\ conversations' = convs
        /\ session_state' =
               [session_state EXCEPT ![s].conversation_id = Len(conversations) + 1]
        /\ pc' = [pc EXCEPT ![s] = "idle"]
        /\ last' = [op |-> "insert", s |-> s, via |-> "start_new_conversation"]
        /\ UNCHANGED <<users, messages, secrets, started>>

\* "Log out", and the same user logs in again: both drop the remembered id
LogOutAndIn(s) ==
    /\ pc[s] = "resolved"
    /\ session_state' = [session_state EXCEPT ![s].conversation_id = 0]
    /\ pc' = [pc EXCEPT ![s] = "idle"]
    /\ last' = [op |-> "relogin", s |-> s]
    /\ UNCHANGED <<users, conversations, messages, secrets, started>>

RaceNext ==
    \E s \in Sessions :
        \/ GetOrCreate_Query(s)
        \/ GetOrCreate_Insert(s)
        \/ EndRun(s)
        \/ StartNew_Deactivate(s)
        \/ StartNew_Insert(s)
        \/ LogOutAndIn(s)

SpecRace == RaceInit /\ [][RaceNext]_vars

SessionsOf(u) == {s \in Sessions : session_state[s].user_id = u}

C11_Step ==
    /\ last'.op = "insert" =>
           LET u == session_state[last'.s].user_id
           IN  /\ conversations' =
                      Append(conversations,
                             [user_id |-> u, is_active |-> TRUE,
                              created_at |-> Len(conversations) + 1])
               /\ Cardinality(ActiveOf(conversations', u))
                      = Cardinality(ActiveOf(conversations, u)) + 1
    /\ \A u \in DOMAIN users :
           Cardinality(ActiveOf(conversations', u)) <= Cardinality(SessionsOf(u))

\* C11: when the committed steps of the sessions interleave, the insert commit
\* of start_new_conversation and of get_or_create_active_conversation adds an
\* active conversation without reading the table again, so the active
\* conversations another session committed in between stay active: a user
\* with two sessions comes to own two active conversations (C11_Witness), and
\* never more active conversations than sessions.
C11_Race == [][C11_Step]_vars

\* A session's start_new_conversation deactivated all, another session of the
\* user then created a conversation, and the first session's insert came last:
\* each session remembers an active conversation of its own.
C11_Witness ==
    /\ last.op = "insert"
    /\ last.via = "start_new_conversation"
    /\ session_state[1].user_id = session_state[2].user_id
    /\ session_state[1].conversation_id # session_state[2].conversation_id
    /\ \A s \in Sessions :
           /\ session_state[s].conversation_id \in DOMAIN conversations
           /\ conversations[session_state[s].conversation_id].is_active
    /\ Cardinality(ActiveOf(conversations, session_state[1].user_id)) = 2

(***************************************************************************)
(* Further properties of the application (specification Spec).             *)
(***************************************************************************)
C12_Step ==
    last'.op \in TurnOps =>
        /\ \A i \in (Len(messages) + 1)..Len(messages') :
               messages'[i].conversation_id = last'.resolved
        /\ conversations'[last'.resolved].is_active

\* C12: whenever a user turn persists its user and assistant messages, the
\* conversation they are written to has is_active true, for every sequence of
\* complete runs from any sessions, a session whose remembered conversation
\* id predates another session's start_new_conversation included.
C12_MessagesToActive == [][C12_Step]_vars

\* What the seeding of a run of main() makes of the users table, before the
\* login page is shown.
SeededUsers ==
    {seed_two_users_from_secrets(users, secrets, salts) : salts \in Salts \X Salts}

C13_Step ==
    /\ \A s \in Sessions :
           LET U == session_state'[s].user_id
           IN  (U # 0 /\ U # session_state[s].user_id) =>
                   /\ last'.op = "login" /\ last'.s = s /\ last'.ok
                   /\ last'.username # None /\ last'.password # None
                   /\ last'.agree
                   /\ U \in DOMAIN users'
                   /\ SameIdentifier(users'[U].email, last'.username)
                   /\ IsWellFormedHash(users'[U].password_hash)
                   /\ users'[U].password_hash.digest
                          = truncate_password(last'.password)
    /\ (last'.op = "login" /\ last'.ok) =>
           /\ session_state'[last'.s].user_id # 0
           /\ session_state'[last'.s].conversation_id = 0
    /\ (last'.op = "login" /\ ~last'.ok) =>
           /\ session_state' = session_state
           /\ conversations' = conversations
           /\ messages' = messages
           /\ users' \in SeededUsers

\* C13: a session's user_id becomes U only by a login submission with a
\* username and a password, the agreement checked, the normalized username
\* that of U and the password verifying against U's stored hash; a successful
\* login clears the session's remembered conversation id; a failed submission
\* (missing field, no agreement, unknown user, wrong password) changes neither
\* the session's user_id and conversation_id nor the stored conversations and
\* messages, and show_auth_page writes nothing to the users table.
C13_Login == [][C13_Step]_vars

\* Session 1 is logged in and owns a conversation; session 2 has just been
\* refused for an unknown user or a wrong password.
C13_Witness ==
    /\ last.op = "login"
    /\ ~last.ok
    /\ last.why = "invalid"
    /\ last.s = 2
    /\ session_state[2].user_id = 0
    /\ session_state[1].user_id # 0
    /\ session_state[1].conversation_id # 0
    /\ messages # <<>>

=============================================================================
